---------------------------- MODULE Spec2Model ----------------------------
(***************************************************************************)
(* pragmatic-file-declutter: the perceptual duplicate-detection engine     *)
(* (core/dedup.py) and the move/undo transaction log (core/file_ops.py).   *)
(*                                                                         *)
(* Specifications:                                                         *)
(*   SpecBK     BKTree.add / BKTree.find_within                            *)
(*   SpecDedup  find_duplicates over a list of ImageHash                   *)
(*   SpecHash   ImageHash.hamming_distance on pairs of fingerprints        *)
(*   SpecBatch  find_duplicates on batches of four images                  *)
(*   SpecPipeline  compute_hashes and deduplicate over a scanned list      *)
(*   Spec       UndoStack, safe_move, undo_last, undo_all on a filesystem  *)
(*   SpecAlone  the same with nobody else touching the files               *)
(*   SpecCrash  safe_move and undo_last step by step, with crashes         *)
(*   SpecTwo    two UndoStack objects on one history file                  *)
(*   SpecPage   the duplicates page of the UI (ui/pages/select_folder.py)  *)
(*   SpecStack  UndoStack on arbitrary history files: load, push, pop      *)
(***************************************************************************)
EXTENDS Integers, Sequences, FiniteSets, TLC

VARIABLES
    hashes,     \* the ImageHash list handed to BKTree.add / find_duplicates
    tree,       \* BKTree: the nodes, in insertion order
    found,      \* the last BKTree.find_within call: [query, threshold, results]
    groups,     \* the last find_duplicates call and its return value
    sizes,      \* st_size of each image path (0: the file does not exist)
    scan,       \* the FileInfo list handed to deduplicate, with what each holds
    result,     \* the last deduplicate call and its DeduplicationResult
    measured,   \* the last hamming_distance calls and what they returned
    hashed,     \* the last compute_hashes call: its return and its hook calls
    files,      \* filesystem: path -> content of the file there, or NoFile
    dirs,       \* filesystem: the directories that exist
    records,    \* UndoStack._records
    histFile,   \* the content of UndoStack.history_file
    live,       \* whether the process holds a constructed UndoStack
    last,       \* the last call: what was called, with what, and how it ended
    pc,         \* where the process is inside safe_move or undo_last
    records2,   \* _records of a second UndoStack on the same history file
    ui          \* the duplicates page: result shown, keep boxes, last click

dedupVars ==
    <<hashes, tree, found, groups, sizes, scan, result, measured, hashed>>
fsVars ==
    <<files, dirs, records, histFile, live, last, pc, records2, ui>>
vars == <<hashes, tree, found, groups, sizes, scan, result, measured, hashed,
         files, dirs, records, histFile, live, last, pc, records2, ui>>

----------------------------------------------------------------------------
(* Bounds                                                                  *)

\* Fingerprints inserted into a BKTree / passed to find_duplicates.
MaxImages == 3
\* Largest threshold argument tried.
MaxThreshold == 2
\* Records the undo stack holds before the callers stop moving files.
MaxStack == 2
\* Elements of a history file found on disk at start-up.
MaxFileItems == 2
\* Hex digits per hash string in the runs that only measure distances.
HashLen == 1

\* The hash strings str(imagehash.phash(img)) / str(imagehash.dhash(img)) of
\* the modelled images, as sequences of hex digits: "0" and "7".  Two
\* fingerprints built from them are at combined distance 0, 1 or 3.
HashStrings == {<<0>>, <<7>>}
\* File sizes st_size can report for an existing image.
FileSizes == {1, 2}

----------------------------------------------------------------------------
(* Helpers                                                                 *)

Max(a, b) == IF a >= b THEN a ELSE b

Range(s) == {s[i] : i \in 1..Len(s)}

Reverse(s) == [i \in 1..Len(s) |-> s[Len(s) + 1 - i]]

RECURSIVE Flatten(_)
Flatten(ss) == IF ss = <<>> THEN <<>> ELSE Head(ss) \o Flatten(Tail(ss))

\* The elements of the set of naturals S as an increasing sequence.
RECURSIVE Ascending(_)
Ascending(S) ==
    IF S = {} THEN <<>>
    ELSE LET m == CHOOSE x \in S : \A y \in S : x <= y
         IN <<m>> \o Ascending(S \ {m})

----------------------------------------------------------------------------
(* ImageHash                                                               *)

\* int(h, 16)
RECURSIVE HexToInt(_)
HexToInt(h) ==
    IF h = <<>> THEN 0
    ELSE 16 * HexToInt(SubSeq(h, 1, Len(h) - 1)) + h[Len(h)]

\* val1 ^ val2
RECURSIVE Xor(_, _)
Xor(a, b) ==
    IF a = 0 /\ b = 0 THEN 0
    ELSE (IF (a % 2) = (b % 2) THEN 0 ELSE 1) + 2 * Xor(a \div 2, b \div 2)

\* bin(xor).count("1")
RECURSIVE CountOnes(_)
CountOnes(n) == IF n = 0 THEN 0 ELSE (n % 2) + CountOnes(n \div 2)

HexHamming(h1, h2) == CountOnes(Xor(HexToInt(h1), HexToInt(h2)))

\* hamming_distance comparing self.dhash with other.phash.
HammingDistanceMixed(self, other) ==
    LET phash_dist == HexHamming(self.phash, other.phash)
        dhash_dist == HexHamming(self.dhash, other.phash)
    IN (phash_dist + dhash_dist) \div 2

HammingDistance(self, other) ==
    LET phash_dist == HexHamming(self.phash, other.phash)
        dhash_dist == HexHamming(self.dhash, other.dhash)
    IN (phash_dist + dhash_dist) \div 2

\* Path of the k-th image of a run.
ImagePath(k) == k

----------------------------------------------------------------------------
(* BKTree.  Node n of the sequence is the n-th item added; parent and edge *)
(* say under which node, and at which key of that node's children dict, it *)
(* hangs (the root has parent 0).                                          *)

EmptyTree == <<>>

Children(t, n) == {c \in 1..Len(t) : t[c].parent = n}

ChildAt(t, n, distance) == {c \in Children(t, n) : t[c].edge = distance}

RECURSIVE BKInsertUnder(_, _, _)
BKInsertUnder(t, n, item) ==
    LET distance == HammingDistance(t[n].item, item)
        at == ChildAt(t, n, distance)
    IN IF at # {}
       THEN BKInsertUnder(t, CHOOSE c \in at : TRUE, item)
       ELSE Append(t, [item |-> item, parent |-> n, edge |-> distance])

BKAdd(t, item) ==
    IF t = EmptyTree
    THEN <<[item |-> item, parent |-> 0, edge |-> 0]>>
    ELSE BKInsertUnder(t, 1, item)

\* The children of a node whose key lies in the window _search descends into.
SearchWindow(t, n, distance, threshold) ==
    LET min_dist == Max(0, distance - threshold)
        max_dist == distance + threshold
    IN Ascending({c \in Children(t, n) :
                     min_dist <= t[c].edge /\ t[c].edge <= max_dist})

RECURSIVE BKSearch(_, _, _, _)
BKSearch(t, n, query, threshold) ==
    LET distance == HammingDistance(t[n].item, query)
        here == IF distance <= threshold
                THEN << <<t[n].item, distance>> >>
                ELSE <<>>
        kids == SearchWindow(t, n, distance, threshold)
    IN here \o Flatten([k \in 1..Len(kids) |->
                           BKSearch(t, kids[k], query, threshold)])

FindWithin(t, query, threshold) ==
    IF t = EmptyTree THEN <<>> ELSE BKSearch(t, 1, query, threshold)

----------------------------------------------------------------------------
(* UnionFind: _parent and _rank are dicts keyed by path.                   *)

EmptyUF == [parent |-> <<>>, rank |-> <<>>]

\* find(x): returns the root and the structure after path compression.
RECURSIVE UFFind(_, _)
UFFind(uf, x) ==
    LET uf1 == IF x \in DOMAIN uf.parent THEN uf
               ELSE [parent |-> (x :> x) @@ uf.parent,
                     rank |-> (x :> 0) @@ uf.rank]
    IN IF uf1.parent[x] # x
       THEN LET r == UFFind(uf1, uf1.parent[x])
            IN [uf |-> [r.uf EXCEPT !.parent[x] = r.root], root |-> r.root]
       ELSE [uf |-> uf1, root |-> x]

UFUnion(uf, x, y) ==
    LET fx == UFFind(uf, x)
        fy == UFFind(fx.uf, y)
        u == fy.uf
        swap == u.rank[fx.root] < u.rank[fy.root]
        rx == IF swap THEN fy.root ELSE fx.root
        ry == IF swap THEN fx.root ELSE fy.root
        linked == [u EXCEPT !.parent[ry] = rx]
    IN IF fx.root = fy.root THEN u
       ELSE IF u.rank[rx] = u.rank[ry]
            THEN [linked EXCEPT !.rank[rx] = @ + 1]
            ELSE linked

----------------------------------------------------------------------------
(* find_duplicates                                                         *)

\* tuple(sorted([p1, p2], key=str))
PairKey(p1, p2) == IF p1 <= p2 THEN <<p1, p2>> ELSE <<p2, p1>>

\* The tree find_duplicates builds: every hash added in list order.
RECURSIVE BuildTree(_, _)
BuildTree(t, hs) ==
    IF hs = <<>> THEN t ELSE BuildTree(BKAdd(t, Head(hs)), Tail(hs))

\* The inner loop body comparing with < where the code has <=.
PairStepStrict(st, img_hash, match, identical_threshold, similar_threshold) ==
    LET other == match[1]
        dist == match[2]
        pair == PairKey(img_hash.path, other.path)
        st1 == [st EXCEPT !.distances = (pair :> dist) @@ st.distances]
    IN IF other.path = img_hash.path THEN st
       ELSE IF dist < identical_threshold
            THEN [st1 EXCEPT
                    !.uf_identical = UFUnion(@, img_hash.path, other.path)]
       ELSE IF dist < similar_threshold
            THEN [st1 EXCEPT
                    !.uf_similar = UFUnion(@, img_hash.path, other.path)]
       ELSE st1

\* The inner loop body putting every match into the identical tier.
PairStepOneTier(st, img_hash, match, identical_threshold, similar_threshold) ==
    LET other == match[1]
        dist == match[2]
        pair == PairKey(img_hash.path, other.path)
        st1 == [st EXCEPT !.distances = (pair :> dist) @@ st.distances]
    IN IF other.path = img_hash.path THEN st
       ELSE IF dist <= similar_threshold
            THEN [st1 EXCEPT
                    !.uf_identical = UFUnion(@, img_hash.path, other.path)]
       ELSE st1

\* The body of the inner loop, for one (other, dist) of matches.
PairStep(st, img_hash, match, identical_threshold, similar_threshold) ==
    LET other == match[1]
        dist == match[2]
        pair == PairKey(img_hash.path, other.path)
        st1 == [st EXCEPT !.distances = (pair :> dist) @@ st.distances]
    IN IF other.path = img_hash.path THEN st
       ELSE IF dist <= identical_threshold
            THEN [st1 EXCEPT
                    !.uf_identical = UFUnion(@, img_hash.path, other.path)]
       ELSE IF dist <= similar_threshold
            THEN [st1 EXCEPT
                    !.uf_similar = UFUnion(@, img_hash.path, other.path)]
       ELSE st1

RECURSIVE MatchLoop(_, _, _, _, _)
MatchLoop(st, img_hash, matches, identical_threshold, similar_threshold) ==
    IF matches = <<>> THEN st
    ELSE MatchLoop(PairStep(st, img_hash, Head(matches),
                            identical_threshold, similar_threshold),
                   img_hash, Tail(matches),
                   identical_threshold, similar_threshold)

\* "Find all pairs and union them": the outer loop over hashes.
RECURSIVE PairLoop(_, _, _, _, _)
PairLoop(st, t, todo, identical_threshold, similar_threshold) ==
    IF todo = <<>> THEN st
    ELSE LET img_hash == Head(todo)
             matches == FindWithin(t, img_hash, similar_threshold)
         IN PairLoop(MatchLoop(st, img_hash, matches,
                               identical_threshold, similar_threshold),
                     t, Tail(todo), identical_threshold, similar_threshold)

\* any(uf.find(other.path) == root for other in others): the generator stops
\* at the first hit; every find it made has compressed paths.
RECURSIVE AnyInRoot(_, _, _)
AnyInRoot(uf, others, root) ==
    IF others = <<>> THEN [uf |-> uf, any |-> FALSE]
    ELSE LET f == UFFind(uf, Head(others).path)
         IN IF f.root = root THEN [uf |-> f.uf, any |-> TRUE]
            ELSE AnyInRoot(f.uf, Tail(others), root)

\* roots is the dict root -> members as a sequence of [root, members], in
\* insertion order.
AddMember(roots, root, h) ==
    IF \E i \in 1..Len(roots) : roots[i].root = root
    THEN [i \in 1..Len(roots) |->
            IF roots[i].root = root
            THEN [roots[i] EXCEPT !.members = Append(@, h)]
            ELSE roots[i]]
    ELSE Append(roots, [root |-> root, members |-> <<h>>])

\* The loop filling identical_roots / similar_roots; assigned is the set of
\* paths to skip (empty for the identical tier).
RECURSIVE CollectRoots(_, _, _, _, _)
CollectRoots(uf, roots, todo, hs, assigned) ==
    IF todo = <<>> THEN roots
    ELSE LET h == Head(todo)
         IN IF h.path \in assigned
            THEN CollectRoots(uf, roots, Tail(todo), hs, assigned)
            ELSE LET f == UFFind(uf, h.path)
                     others == SelectSeq(hs, LAMBDA o :
                                   o.path # h.path /\ o.path \notin assigned)
                     a == IF f.root # h.path
                          THEN [uf |-> f.uf, any |-> TRUE]
                          ELSE AnyInRoot(f.uf, others, f.root)
                 IN CollectRoots(a.uf,
                                 IF a.any THEN AddMember(roots, f.root, h)
                                 ELSE roots,
                                 Tail(todo), hs, assigned)

\* h.path.stat().st_size if h.path.exists() else 0
SizeOf(sz, h) == sz[h.path]

\* members.sort(key=size, reverse=True): stable, largest first.
RECURSIVE InsertBySize(_, _, _)
InsertBySize(sorted, h, sz) ==
    IF sorted = <<>> THEN <<h>>
    ELSE IF SizeOf(sz, h) > SizeOf(sz, Head(sorted))
         THEN <<h>> \o sorted
         ELSE <<Head(sorted)>> \o InsertBySize(Tail(sorted), h, sz)

RECURSIVE SortBySize(_, _)
SortBySize(members, sz) ==
    IF members = <<>> THEN <<>>
    ELSE InsertBySize(SortBySize(SubSeq(members, 1, Len(members) - 1), sz),
                      members[Len(members)], sz)

\* The recorded distances among members: [total_dist, count].
PairDistances(members, distances) ==
    LET known == {p \in {<<i, j>> : i \in 1..Len(members), j \in 1..Len(members)} :
                     /\ p[1] < p[2]
                     /\ PairKey(members[p[1]].path, members[p[2]].path)
                            \in DOMAIN distances}
        RECURSIVE Sum(_)
        Sum(S) == IF S = {} THEN 0
                  ELSE LET p == CHOOSE q \in S : TRUE
                       IN distances[PairKey(members[p[1]].path,
                                            members[p[2]].path)]
                            + Sum(S \ {p})
    IN [total_dist |-> Sum(known), count |-> Cardinality(known)]

\* A DuplicateGroup built without sorting its members.
MakeGroupUnsorted(members, sz, distances, similarity) ==
    LET d == PairDistances(members, distances)
    IN [original |-> Head(members), duplicates |-> Tail(members),
        similarity |-> similarity,
        total_dist |-> d.total_dist, count |-> d.count]

\* One DuplicateGroup; avg_distance is total_dist / count, or 0 if count = 0.
MakeGroup(members, sz, distances, similarity) ==
    LET sorted == SortBySize(members, sz)
        d == PairDistances(sorted, distances)
    IN [original |-> Head(sorted), duplicates |-> Tail(sorted),
        similarity |-> similarity,
        total_dist |-> d.total_dist, count |-> d.count]

\* "for root, members in roots.items(): if len(members) < 2: continue ..."
RECURSIVE BuildGroups(_, _, _, _)
BuildGroups(roots, sz, distances, similarity) ==
    IF roots = <<>> THEN <<>>
    ELSE (IF Len(Head(roots).members) < 2 THEN <<>>
          ELSE <<MakeGroup(Head(roots).members, sz, distances, similarity)>>)
         \o BuildGroups(Tail(roots), sz, distances, similarity)

\* DuplicateGroup.all_images
AllImages(g) == <<g.original>> \o g.duplicates

GroupPaths(g) == {h.path : h \in Range(AllImages(g))}

IdenticalGroups(st, hs, sz) ==
    BuildGroups(CollectRoots(st.uf_identical, <<>>, hs, hs, {}),
                sz, st.distances, "identical")

\* The similar tier collected without skipping the identical groups' paths.
SimilarGroupsNoSkip(st, hs, sz, identical_groups) ==
    BuildGroups(CollectRoots(st.uf_similar, <<>>, hs, hs, {}),
                sz, st.distances, "similar")

SimilarGroups(st, hs, sz, identical_groups) ==
    LET assigned_to_identical ==
            UNION {GroupPaths(identical_groups[i]) :
                      i \in 1..Len(identical_groups)}
    IN BuildGroups(CollectRoots(st.uf_similar, <<>>, hs, hs,
                                assigned_to_identical),
                   sz, st.distances, "similar")

FindDuplicates(hs, sz, identical_threshold, similar_threshold) ==
    IF Len(hs) < 2 THEN [identical |-> <<>>, similar |-> <<>>]
    ELSE LET t == BuildTree(EmptyTree, hs)
             st == PairLoop([uf_identical |-> EmptyUF, uf_similar |-> EmptyUF,
                             distances |-> <<>>],
                            t, hs, identical_threshold, similar_threshold)
             identical_groups == IdenticalGroups(st, hs, sz)
         IN [identical |-> identical_groups,
             similar |-> SimilarGroups(st, hs, sz, identical_groups)]

----------------------------------------------------------------------------
(* SpecBK: items are added one at a time, queries are answered.            *)

NoFound == [query |-> 0, threshold |-> 0, results |-> <<>>, asked |-> FALSE]
NoGroups == [called |-> FALSE]
NoResult == [called |-> FALSE]
NoMeasure == [called |-> FALSE]
NoHashed == [called |-> FALSE]
Idle == [at |-> "idle"]
NoPage == [shown |-> FALSE]
NoLast == [op |-> "none", outcome |-> "none", src |-> "", dst |-> "",
           chained |-> FALSE]

InitBK ==
    /\ hashes = <<>>
    /\ tree = EmptyTree
    /\ found = NoFound
    /\ groups = NoGroups
    /\ sizes = <<>>
    /\ scan = <<>>
    /\ result = NoResult
    /\ measured = NoMeasure
    /\ hashed = NoHashed
    /\ files = <<>>
    /\ dirs = {}
    /\ records = <<>>
    /\ histFile = <<>>
    /\ live = FALSE
    /\ last = NoLast
    /\ pc = Idle
    /\ records2 = <<>>
    /\ ui = NoPage

TreeAdd(phash, dhash) ==
    /\ Len(tree) < MaxImages
    /\ LET item == [phash |-> phash, dhash |-> dhash,
                    path |-> ImagePath(Len(tree) + 1)]
       IN /\ tree' = BKAdd(tree, item)
          /\ hashes' = Append(hashes, item)
    /\ found' = NoFound
    /\ UNCHANGED <<groups, sizes, scan, result, measured, hashed, fsVars>>

TreeFindWithin(phash, dhash, threshold) ==
    /\ tree # EmptyTree
    /\ LET query == [phash |-> phash, dhash |-> dhash, path |-> 0]
       IN found' = [query |-> query, threshold |-> threshold,
                    results |-> FindWithin(tree, query, threshold),
                    asked |-> TRUE]
    /\ UNCHANGED <<hashes, tree, groups, sizes, scan, result, measured, hashed, fsVars>>

NextBK ==
    \/ \E phash \in HashStrings, dhash \in HashStrings : TreeAdd(phash, dhash)
    \/ \E phash \in HashStrings, dhash \in HashStrings,
          threshold \in 0..MaxThreshold :
            TreeFindWithin(phash, dhash, threshold)

SpecBK == InitBK /\ [][NextBK]_vars

\* The brute-force O(n) filter over all stored fingerprints.
BruteForce(t, query, threshold) ==
    {<<t[n].item, HammingDistance(t[n].item, query)>> :
        n \in {m \in 1..Len(t) :
                  HammingDistance(t[m].item, query) <= threshold}}

\* C1: find_within(q, t) returns exactly the pairs (x, distance(q, x)) of the
\* stored fingerprints x with distance(q, x) <= t: the pruned search and the
\* brute-force filter over all stored fingerprints give the same result set.
C1_FindWithinIsBruteForce ==
    found.asked =>
        Range(found.results) = BruteForce(tree, found.query, found.threshold)

----------------------------------------------------------------------------
(* SpecHash: two ImageHash values are built from any hash strings and      *)
(* their distances are taken.                                              *)

\* Hex digits the hash strings of these runs are written with.
HexDigits == {0, 1, 8, 15}
AnyHashStrings == [1..HashLen -> HexDigits]
Fingerprints == [phash : AnyHashStrings, dhash : AnyHashStrings]

InitHash ==
    /\ hashes \in [1..2 -> Fingerprints]
    /\ tree = EmptyTree
    /\ found = NoFound
    /\ groups = NoGroups
    /\ sizes = <<>>
    /\ scan = <<>>
    /\ result = NoResult
    /\ measured = NoMeasure
    /\ hashed = NoHashed
    /\ files = <<>>
    /\ dirs = {}
    /\ records = <<>>
    /\ histFile = <<>>
    /\ live = FALSE
    /\ last = NoLast
    /\ pc = Idle
    /\ records2 = <<>>
    /\ ui = NoPage

\* a.hamming_distance(b), b.hamming_distance(a), a.hamming_distance(a)
Measure ==
    /\ ~measured.called
    /\ measured' = [called |-> TRUE,
                    ab |-> HammingDistance(hashes[1], hashes[2]),
                    ba |-> HammingDistance(hashes[2], hashes[1]),
                    aa |-> HammingDistance(hashes[1], hashes[1])]
    /\ UNCHANGED <<hashes, tree, found, groups, sizes, scan, result, hashed, fsVars>>

NextHash == Measure

SpecHash == InitHash /\ [][NextHash]_vars

\* C17: the combined distance of two fingerprints is zero if and only if
\* their phash strings are equal and their dhash strings are equal.
C17_ZeroIffIdentical ==
    measured.called =>
        (measured.ab = 0 <=> (/\ hashes[1].phash = hashes[2].phash
                              /\ hashes[1].dhash = hashes[2].dhash))

\* C18: hamming_distance(a, b) = hamming_distance(b, a), and
\* hamming_distance(a, a) = 0.
C18_SymmetricAndReflexive ==
    measured.called => (measured.ab = measured.ba /\ measured.aa = 0)

\* The distance of two different fingerprints, with different phash and
\* dhash of the first, was taken in both directions.
C18_Witness ==
    /\ measured.called
    /\ measured.ab > 0
    /\ hashes[1].phash # hashes[1].dhash
    /\ hashes[1].phash # hashes[2].phash

----------------------------------------------------------------------------
(* SpecDedup: the scanner's images arrive one at a time, then              *)
(* find_duplicates runs on the list with any pair of thresholds.           *)

InitDedup ==
    /\ hashes = <<>>
    /\ tree = EmptyTree
    /\ found = NoFound
    /\ groups = NoGroups
    /\ sizes = <<>>
    /\ scan = <<>>
    /\ result = NoResult
    /\ measured = NoMeasure
    /\ hashed = NoHashed
    /\ files = <<>>
    /\ dirs = {}
    /\ records = <<>>
    /\ histFile = <<>>
    /\ live = FALSE
    /\ last = NoLast
    /\ pc = Idle
    /\ records2 = <<>>
    /\ ui = NoPage

AddImage(phash, dhash, size) ==
    /\ Len(hashes) < MaxImages
    /\ ~groups.called
    /\ hashes' = Append(hashes, [phash |-> phash, dhash |-> dhash,
                                 path |-> ImagePath(Len(hashes) + 1)])
    /\ sizes' = Append(sizes, size)
    /\ UNCHANGED <<tree, found, groups, scan, result, measured, hashed, fsVars>>

RunFindDuplicates(identical_threshold, similar_threshold) ==
    /\ ~groups.called
    /\ LET r == FindDuplicates(hashes, sizes,
                               identical_threshold, similar_threshold)
       IN groups' = [called |-> TRUE,
                     identical_threshold |-> identical_threshold,
                     similar_threshold |-> similar_threshold,
                     identical |-> r.identical,
                     similar |-> r.similar]
    /\ UNCHANGED <<hashes, tree, found, sizes, scan, result, measured, hashed, fsVars>>

NextDedup ==
    \/ \E phash \in HashStrings, dhash \in HashStrings, size \in FileSizes :
          AddImage(phash, dhash, size)
    \/ \E identical_threshold \in 0..MaxThreshold,
             similar_threshold \in 0..MaxThreshold :
          RunFindDuplicates(identical_threshold, similar_threshold)

SpecDedup == InitDedup /\ [][NextDedup]_vars

\* The groups of a tier as a sequence of path sets.
AllGroups == groups.identical \o groups.similar

\* C6: identical-tier grouping is transitive: A, B, C with distance(A, B) and
\* distance(B, C) within identical_threshold are all in one identical group,
\* whatever distance(A, C) is.  The thresholds are a configuration with
\* similar_threshold > identical_threshold.
C6_IdenticalTransitive ==
    (groups.called /\ groups.identical_threshold < groups.similar_threshold) =>
        \A a \in 1..Len(hashes), b \in 1..Len(hashes), c \in 1..Len(hashes) :
            ( /\ a # b /\ b # c /\ a # c
              /\ HammingDistance(hashes[a], hashes[b]) <= groups.identical_threshold
              /\ HammingDistance(hashes[b], hashes[c]) <= groups.identical_threshold )
            => \E i \in 1..Len(groups.identical) :
                  {hashes[a].path, hashes[b].path, hashes[c].path}
                      \subseteq GroupPaths(groups.identical[i])

\* A chain A-B-C whose ends are farther apart than identical_threshold was
\* grouped.
C6_Witness ==
    /\ groups.called
    /\ groups.identical_threshold < groups.similar_threshold
    /\ \E a \in 1..Len(hashes), b \in 1..Len(hashes), c \in 1..Len(hashes) :
          /\ a # b /\ b # c /\ a # c
          /\ HammingDistance(hashes[a], hashes[b]) <= groups.identical_threshold
          /\ HammingDistance(hashes[b], hashes[c]) <= groups.identical_threshold
          /\ HammingDistance(hashes[a], hashes[c]) > groups.identical_threshold
          /\ \E i \in 1..Len(groups.identical) :
                {hashes[a].path, hashes[b].path, hashes[c].path}
                    \subseteq GroupPaths(groups.identical[i])

\* C7: each path is in at most one DuplicateGroup of identical_groups and
\* similar_groups together, as original or as duplicate, and once.
C7_PathInOneGroup ==
    groups.called =>
        /\ \A i \in 1..Len(AllGroups), j \in 1..Len(AllGroups) :
              i # j => GroupPaths(AllGroups[i]) \cap GroupPaths(AllGroups[j]) = {}
        /\ \A i \in 1..Len(AllGroups) :
              Cardinality(GroupPaths(AllGroups[i])) = Len(AllImages(AllGroups[i]))

\* An identical group was returned, one of whose images is also within
\* similar_threshold (and not identical_threshold) of an image outside it.
C7_Witness ==
    /\ groups.called
    /\ Len(groups.identical) >= 1
    /\ \E h \in Range(AllImages(groups.identical[1])), k \in Range(hashes) :
          /\ k.path \notin GroupPaths(groups.identical[1])
          /\ HammingDistance(h, k) > groups.identical_threshold
          /\ HammingDistance(h, k) <= groups.similar_threshold

\* The paths find_duplicates put in an identical group.
IdenticalPaths ==
    UNION {GroupPaths(groups.identical[i]) : i \in 1..Len(groups.identical)}

\* C13: two fingerprints at a distance d with identical_threshold < d <=
\* similar_threshold, neither of them in an identical group, are in the same
\* similar group.
C13_SimilarPairGrouped ==
    groups.called =>
        \A a \in 1..Len(hashes), b \in 1..Len(hashes) :
            ( /\ a # b
              /\ HammingDistance(hashes[a], hashes[b]) > groups.identical_threshold
              /\ HammingDistance(hashes[a], hashes[b]) <= groups.similar_threshold
              /\ hashes[a].path \notin IdenticalPaths
              /\ hashes[b].path \notin IdenticalPaths )
            => \E i \in 1..Len(groups.similar) :
                  {hashes[a].path, hashes[b].path}
                      \subseteq GroupPaths(groups.similar[i])

\* The orders in which a list of n fingerprints can arrive.
ArrivalOrders(n) ==
    {f \in [1..n -> 1..n] : \A i \in 1..n, j \in 1..n : f[i] = f[j] => i = j}

\* What C14 compares: of each group its tier, its set of paths and its
\* representative.
GroupSet(found_groups) ==
    {[similarity |-> g.similarity, paths |-> GroupPaths(g),
      original |-> g.original.path] :
        g \in Range(found_groups.identical) \cup Range(found_groups.similar)}

\* C14: find_duplicates (configured with similar_threshold >
\* identical_threshold) returns the same set of groups (tier, paths,
\* representative) for every permutation of its input list.
C14_ArrivalOrderInsensitive ==
    (groups.called /\ groups.identical_threshold < groups.similar_threshold) =>
        \A f \in ArrivalOrders(Len(hashes)) :
            GroupSet(FindDuplicates([i \in 1..Len(hashes) |-> hashes[f[i]]],
                                    sizes, groups.identical_threshold,
                                    groups.similar_threshold))
                = GroupSet(groups)

\* C15: in every DuplicateGroup returned, the representative is at least as
\* large as every duplicate, and the duplicates are in non-increasing order
\* of file size.
C15_LargestIsOriginal ==
    groups.called =>
        \A i \in 1..Len(AllGroups) :
            LET g == AllGroups[i]
            IN /\ \A k \in 1..Len(g.duplicates) :
                     SizeOf(sizes, g.original) >= SizeOf(sizes, g.duplicates[k])
               /\ \A k \in 1..Len(g.duplicates), l \in 1..Len(g.duplicates) :
                     k < l => SizeOf(sizes, g.duplicates[k])
                                 >= SizeOf(sizes, g.duplicates[l])

\* A group's representative arrived after a smaller image of the group.
C15_Witness ==
    /\ groups.called
    /\ \E i \in 1..Len(AllGroups) :
          LET g == AllGroups[i]
          IN \E k \in 1..Len(g.duplicates) :
                /\ g.original.path > g.duplicates[k].path
                /\ SizeOf(sizes, g.original) > SizeOf(sizes, g.duplicates[k])

\* The fingerprints of the set S of paths reachable from those of C over
\* pairs within threshold.
RECURSIVE Closure(_, _, _)
Closure(S, threshold, C) ==
    LET N == C \cup {j \in S : \E i \in C :
                        HammingDistance(hashes[i], hashes[j]) <= threshold}
    IN IF N = C THEN C ELSE Closure(S, threshold, N)

\* The connected component of a in the graph on S of the pairs within
\* threshold.  A path is the position of its fingerprint in hashes.
Component(S, threshold, a) == Closure(S, threshold, {a})

\* C27: the identical groups are exactly the connected components of size
\* >= 2 of the graph of the fingerprint pairs within identical_threshold: one
\* group per component, no group of size 1.  The thresholds are a
\* configuration with similar_threshold > identical_threshold.
C27_IdenticalGroupsAreComponents ==
    (groups.called /\ groups.identical_threshold < groups.similar_threshold) =>
        LET all == 1..Len(hashes)
            components ==
                {c \in {Component(all, groups.identical_threshold, a) : a \in all} :
                    Cardinality(c) >= 2}
        IN /\ {GroupPaths(groups.identical[i]) : i \in 1..Len(groups.identical)}
                = components
           /\ Len(groups.identical) = Cardinality(components)
           /\ \A i \in 1..Len(groups.identical) :
                 Len(AllImages(groups.identical[i])) >= 2

\* Three images, two of them in one component and the third left alone, or
\* a chain of three whose ends are farther apart than identical_threshold.
C27_Witness ==
    /\ groups.called
    /\ groups.identical_threshold < groups.similar_threshold
    /\ Len(hashes) = 3
    /\ Len(groups.identical) = 1
    /\ \/ Len(groups.identical[1].duplicates) = 1
       \/ \E a, b \in 1..3 :
             HammingDistance(hashes[a], hashes[b]) > groups.identical_threshold

----------------------------------------------------------------------------
(* SpecBatch: find_duplicates on a batch of BatchLen images of one size.   *)

BatchLen == 4

InitBatch ==
    /\ hashes \in {b \in [1..BatchLen -> [phash : HashStrings, dhash : HashStrings,
                                         path : 1..BatchLen]] :
                      \A k \in 1..BatchLen : b[k].path = ImagePath(k)}
    /\ tree = EmptyTree
    /\ found = NoFound
    /\ groups = NoGroups
    /\ sizes = [k \in 1..BatchLen |-> 1]
    /\ scan = <<>>
    /\ result = NoResult
    /\ measured = NoMeasure
    /\ hashed = NoHashed
    /\ files = <<>>
    /\ dirs = {}
    /\ records = <<>>
    /\ histFile = <<>>
    /\ live = FALSE
    /\ last = NoLast
    /\ pc = Idle
    /\ records2 = <<>>
    /\ ui = NoPage

NextBatch ==
    \E identical_threshold \in 0..MaxThreshold,
       similar_threshold \in 0..MaxThreshold :
        RunFindDuplicates(identical_threshold, similar_threshold)

SpecBatch == InitBatch /\ [][NextBatch]_vars

\* C25: every group find_duplicates returns, identical or similar, has at
\* least one recorded pairwise distance among its members, so avg_distance is
\* never the 0 given when no distance was recorded.  The thresholds are a
\* configuration with similar_threshold > identical_threshold.
C25_GroupHasRecordedDistance ==
    (groups.called /\ groups.identical_threshold < groups.similar_threshold) =>
        \A i \in 1..Len(AllGroups) : AllGroups[i].count > 0

\* C26: any two members of a similar group are linked by a chain of members
\* of that same group, each consecutive pair of it within similar_threshold;
\* no similar group is held together only by a fingerprint that went to an
\* identical group.
C26_SimilarGroupChained ==
    (groups.called /\ groups.identical_threshold < groups.similar_threshold) =>
        \A i \in 1..Len(groups.similar) :
            LET members == GroupPaths(groups.similar[i])
            IN \A a \in members :
                  Component(members, groups.similar_threshold, a) = members

----------------------------------------------------------------------------
(* SpecPipeline: the scanner lists files, some of which cannot be opened   *)
(* as images, then deduplicate runs on the list.                           *)

\* What Image.open finds at a path: an image with its two hash strings, or
\* something that raises.
Unreadable == [phash |-> <<>>, dhash |-> <<>>]
Images == [phash : HashStrings, dhash : HashStrings]

\* compute_hash
ComputeHash(info) ==
    IF info.image = Unreadable
    THEN [outcome |-> "ValueError"]
    ELSE [outcome |-> "ok",
          hash |-> [phash |-> info.image.phash, dhash |-> info.image.dhash,
                    path |-> info.path]]

\* One round of the loop of compute_hashes that forgets a failed item.
HashStepDropFailed(acc, info, i, total, on_progress) ==
    LET r == ComputeHash(info)
        a1 == IF r.outcome = "ok"
              THEN [acc EXCEPT !.hashes = Append(@, r.hash)]
              ELSE acc
    IN IF on_progress THEN [a1 EXCEPT !.calls = Append(@, <<i, total>>)]
       ELSE a1

\* One round that calls the hook inside the try, after a success only.
HashStepHookInTry(acc, info, i, total, on_progress) ==
    LET r == ComputeHash(info)
    IN IF r.outcome = "ok"
       THEN [acc EXCEPT !.hashes = Append(@, r.hash),
                        !.calls = IF on_progress THEN Append(@, <<i, total>>)
                                  ELSE @]
       ELSE [acc EXCEPT !.failed = Append(@, info.path)]

\* One round of the loop of compute_hashes: item i of total.
HashStep(acc, info, i, total, on_progress) ==
    LET r == ComputeHash(info)
        a1 == IF r.outcome = "ok"
              THEN [acc EXCEPT !.hashes = Append(@, r.hash)]
              ELSE [acc EXCEPT !.failed = Append(@, info.path)]
    IN IF on_progress THEN [a1 EXCEPT !.calls = Append(@, <<i, total>>)]
       ELSE a1

RECURSIVE HashLoop(_, _, _, _)
HashLoop(acc, file_infos, i, on_progress) ==
    IF i > Len(file_infos) THEN acc
    ELSE HashLoop(HashStep(acc, file_infos[i], i, Len(file_infos), on_progress),
                  file_infos, i + 1, on_progress)

\* compute_hashes: [hashes, failed] in input order, and calls, the
\* arguments of the on_progress calls in the order they were made.
ComputeHashes(file_infos, on_progress) ==
    HashLoop([hashes |-> <<>>, failed |-> <<>>, calls |-> <<>>],
             file_infos, 1, on_progress)

DeduplicationResult(identical, similar, unique, failed, total) ==
    [called |-> TRUE, identical_groups |-> identical,
     similar_groups |-> similar, unique_images |-> unique,
     failed_hashes |-> failed, total_scanned |-> total]

\* deduplicate reporting every hashed image as unique.
WithAllUnique(c, d, total) ==
    DeduplicationResult(d.identical, d.similar, c.hashes, c.failed, total)

\* "Find unique images (not in any group)" and the result handed back.
WithUniqueImages(c, d, total) ==
    LET both == d.identical \o d.similar
        assigned == UNION {GroupPaths(both[i]) : i \in 1..Len(both)}
    IN DeduplicationResult(d.identical, d.similar,
                           SelectSeq(c.hashes, LAMBDA h : h.path \notin assigned),
                           c.failed, total)

\* Stage 2 of deduplicate, c being what compute_hashes returned.
FindAmongHashed(c, total, sz, identical_threshold, similar_threshold) ==
    IF Len(c.hashes) < 2
    THEN DeduplicationResult(<<>>, <<>>, c.hashes, c.failed, total)
    ELSE WithUniqueImages(c,
                          FindDuplicates(c.hashes, sz, identical_threshold,
                                         similar_threshold),
                          total)

Deduplicate(file_infos, sz, identical_threshold, similar_threshold) ==
    IF Len(file_infos) < 2
    THEN DeduplicationResult(<<>>, <<>>, <<>>, <<>>, Len(file_infos))
    ELSE FindAmongHashed(ComputeHashes(file_infos, TRUE), Len(file_infos), sz,
                         identical_threshold, similar_threshold)

InitPipeline ==
    /\ hashes = <<>>
    /\ tree = EmptyTree
    /\ found = NoFound
    /\ groups = NoGroups
    /\ sizes = <<>>
    /\ scan = <<>>
    /\ result = NoResult
    /\ measured = NoMeasure
    /\ hashed = NoHashed
    /\ files = <<>>
    /\ dirs = {}
    /\ records = <<>>
    /\ histFile = <<>>
    /\ live = FALSE
    /\ last = NoLast
    /\ pc = Idle
    /\ records2 = <<>>
    /\ ui = NoPage

\* The scanner lists one more file; its size plays no part in what
\* deduplicate counts, and one size is taken.
ScanFile(image, size) ==
    /\ Len(scan) < MaxImages
    /\ ~result.called
    /\ ~hashed.called
    /\ scan' = Append(scan, [path |-> ImagePath(Len(scan) + 1), image |-> image])
    /\ sizes' = Append(sizes, size)
    /\ UNCHANGED <<hashes, tree, found, groups, result, measured, hashed, fsVars>>

RunComputeHashes(on_progress) ==
    /\ ~hashed.called
    /\ ~result.called
    /\ LET c == ComputeHashes(scan, on_progress)
       IN hashed' = [called |-> TRUE, on_progress |-> on_progress,
                     hashes |-> c.hashes, failed |-> c.failed,
                     calls |-> c.calls]
    /\ UNCHANGED <<hashes, tree, found, groups, sizes, scan, result, measured,
                   fsVars>>

RunDeduplicate(identical_threshold, similar_threshold) ==
    /\ ~result.called
    /\ result' = Deduplicate(scan, sizes, identical_threshold, similar_threshold)
    /\ UNCHANGED <<hashes, tree, found, groups, sizes, scan, measured, hashed, fsVars>>

NextPipeline ==
    \/ \E image \in Images \cup {Unreadable} :
          ScanFile(image, CHOOSE size \in FileSizes : TRUE)
    \/ \E on_progress \in BOOLEAN : RunComputeHashes(on_progress)
    \/ \E identical_threshold \in 0..MaxThreshold,
             similar_threshold \in 0..MaxThreshold :
          RunDeduplicate(identical_threshold, similar_threshold)

SpecPipeline == InitPipeline /\ [][NextPipeline]_vars

\* The paths deduplicate hashed: none when fewer than two files were
\* scanned, else those Image.open could read.
HashedPaths ==
    IF Len(scan) < 2 THEN {}
    ELSE {scan[i].path : i \in {k \in 1..Len(scan) : scan[k].image # Unreadable}}

\* How many entries of a sequence of ImageHash have the path p.
Occurrences(hs, p) == Cardinality({i \in 1..Len(hs) : hs[i].path = p})

ResultGroups == result.identical_groups \o result.similar_groups

\* All images of all groups of the result, one after the other.
GroupedImages ==
    Flatten([i \in 1..Len(ResultGroups) |-> AllImages(ResultGroups[i])])

\* C16: in the result of deduplicate every successfully hashed fingerprint
\* appears exactly once among the identical groups, the similar groups and
\* unique_images, and unique_images holds exactly those in no group.
C16_ResultPartitionsHashes ==
    result.called =>
        /\ \A p \in HashedPaths :
              Occurrences(GroupedImages, p)
                  + Occurrences(result.unique_images, p) = 1
        /\ {h.path : h \in Range(result.unique_images)}
              = HashedPaths \ {h.path : h \in Range(GroupedImages)}
        /\ {h.path : h \in Range(GroupedImages)} \subseteq HashedPaths

\* Two equal images made an identical group of two and a third image, far
\* from both, is the one unique entry.
C16_Witness ==
    /\ result.called
    /\ Len(result.identical_groups) = 1
    /\ Len(result.identical_groups[1].duplicates) = 1
    /\ HammingDistance(result.identical_groups[1].original,
                       result.identical_groups[1].duplicates[1]) = 0
    /\ result.similar_groups = <<>>
    /\ Len(result.unique_images) = 1
    /\ HammingDistance(result.unique_images[1],
                       result.identical_groups[1].original) > 1

\* The positions of the scanned list, in input order, compute_hash succeeds
\* or fails for.
ScanPositions(ok) ==
    {k \in 1..Len(scan) : (scan[k].image # Unreadable) = ok}

\* C21: compute_hashes never aborts on an item that fails to hash: of n
\* file descriptors it returns successes and failures whose lengths add up to
\* n, every input path is in exactly one of the two lists, and the successes
\* keep the relative order of the input.
C21_HashesPartitionInput ==
    hashed.called =>
        /\ Len(hashed.hashes) + Len(hashed.failed) = Len(scan)
        /\ \A k \in 1..Len(scan) :
              Occurrences(hashed.hashes, scan[k].path)
              + Cardinality({i \in 1..Len(hashed.failed) :
                                hashed.failed[i] = scan[k].path}) = 1
        /\ \A i, j \in 1..Len(hashed.hashes) :
              i < j =>
                \E a, b \in 1..Len(scan) :
                    /\ a < b
                    /\ scan[a].path = hashed.hashes[i].path
                    /\ scan[b].path = hashed.hashes[j].path

\* A batch where an unreadable file stood between two images that hashed.
C21_Witness ==
    /\ hashed.called
    /\ Len(scan) = 3
    /\ scan[2].image = Unreadable
    /\ Len(hashed.hashes) = 2
    /\ hashed.failed = <<scan[2].path>>

\* C22: with a progress hook, compute_hashes calls it exactly once per input
\* item, in input order, after the item was hashed or failed, with (i, n)
\* for item i of n: the calls are (1,n), (2,n), ..., (n,n).
C22_ProgressOncePerItem ==
    (hashed.called /\ hashed.on_progress) =>
        hashed.calls = [i \in 1..Len(scan) |-> <<i, Len(scan)>>]

\* The hook was called for a failed item and for a hashed one.
C22_Witness ==
    /\ hashed.called
    /\ hashed.on_progress
    /\ Len(scan) >= 2
    /\ ScanPositions(FALSE) # {}
    /\ ScanPositions(TRUE) # {}
    /\ Len(hashed.calls) = Len(scan)

\* The number of images in all groups of the result.
RECURSIVE SumOfSizes(_)
SumOfSizes(gs) ==
    IF gs = <<>> THEN 0
    ELSE Len(AllImages(gs[1])) + SumOfSizes(Tail(gs))

\* C29: every scanned file is accounted for in the result of deduplicate:
\* total_scanned is the number of failed hashes plus the number of unique
\* images plus the sizes of all identical and similar groups, for every
\* input list, those of zero or one file included.
C29_EveryFileAccounted ==
    result.called =>
        result.total_scanned = Len(result.failed_hashes)
                               + Len(result.unique_images)
                               + SumOfSizes(ResultGroups)

----------------------------------------------------------------------------
(* The filesystem the move/undo log works on.                              *)

NoFile == "-"

\* Resolved absolute paths of files: those of a flat collection, in /a and
\* in /a/dup, and one below a name that can also be a file.  The names
\* callers may pass: flat ones, and all of them.
FlatPaths == {"/a/x", "/a/y", "/a/dup/x"}

\* The folders the duplicates page moves images to, below the selected
\* folder /a, and the names an image x or y can get there.
OutputFolder == "/a/_pragmatic_declutter"
BaseOutput == OutputFolder \o "/duplicadas"
IdenticalFolder == BaseOutput \o "/identicas"
SimilarFolder == BaseOutput \o "/similares"
TierFolders == {IdenticalFolder, SimilarFolder}

\* folder / name
Join(folder, name) == folder \o "/" \o name
TierPaths(folder) == {Join(folder, name) : name \in {"x", "y", "x_1", "y_1"}}

FilePaths ==
    FlatPaths \cup {"/a/x/y"} \cup TierPaths(IdenticalFolder)
        \cup TierPaths(SimilarFolder)
InputPaths == FlatPaths \cup {"/a/dup/../x"}
NestedInputs == InputPaths \cup {"/a/x/y"}

\* Path.resolve()
Resolve(p) == IF p = "/a/dup/../x" THEN "/a/x" ELSE p

\* Path.parent
Parent(p) ==
    IF p = "/a/dup/x" THEN "/a/dup"
    ELSE IF p = "/a/x/y" THEN "/a/x"
    ELSE IF p \in TierPaths(IdenticalFolder) THEN IdenticalFolder
    ELSE IF p \in TierPaths(SimilarFolder) THEN SimilarFolder
    ELSE "/a"

\* The directories parent.mkdir(parents=True, exist_ok=True) leaves existing.
MkdirParents(ds, d) ==
    ds \cup (IF d = "/a" THEN {"/a"}
             ELSE IF d \in TierFolders THEN {"/a", OutputFolder, BaseOutput, d}
             ELSE {"/a", d})

\* history_file.parent
HistoryDir == "/a/_reports"

\* parent.mkdir(parents=True, exist_ok=True) raises FileExistsError: a file
\* has the name of the directory.
MkdirFails(fs, d) == d \in FilePaths /\ fs[d] # NoFile

\* Path.exists(): a file or a directory is there; nothing is below a file.
Exists(fs, ds, p) == fs[p] # NoFile \/ p \in ds

\* shutil.move(src, dst) of a file onto a free name
ShutilMove(fs, src, dst) == [fs EXCEPT ![dst] = fs[src], ![src] = NoFile]

----------------------------------------------------------------------------
(* MoveRecord and the history file.                                        *)
(* A MoveRecord is a record of four fields.  The history file is missing,  *)
(* or holds bytes that are not UTF-8, or holds text; text is JSON or not,  *)
(* and a JSON value is an array of elements or something else.  A JSON     *)
(* object is its sequence of <<key, value>> members.                       *)

Timestamps == {"t1", "t2"}

\* MoveRecord.create with its arguments taken the wrong way round.
MoveRecordCreateSwapped(src, dst, timestamp) ==
    [src |-> Resolve(dst), dst |-> Resolve(src),
     timestamp |-> timestamp, operation_type |-> "move"]

\* MoveRecord.create(src, dst); timestamp is datetime.now().isoformat()
MoveRecordCreate(src, dst, timestamp) ==
    [src |-> Resolve(src), dst |-> Resolve(dst),
     timestamp |-> timestamp, operation_type |-> "move"]

MissingFile == [kind |-> "missing", type |-> "", items |-> <<>>]
FileOf(kind, type, items) == [kind |-> kind, type |-> type, items |-> items]

\* asdict writing the field names of the data model, not of the dataclass.
AsDictRenamed(record) ==
    [type |-> "object",
     members |-> << <<"source", record.src>>, <<"destination", record.dst>>,
                    <<"timestamp", record.timestamp>>,
                    <<"kind", record.operation_type>> >>]

\* dataclasses.asdict(record), as json.dumps writes it
AsDict(record) ==
    [type |-> "object",
     members |-> << <<"src", record.src>>, <<"dst", record.dst>>,
                    <<"timestamp", record.timestamp>>,
                    <<"operation_type", record.operation_type>> >>]

\* json.dumps([asdict(r) for r in records]) written as UTF-8 text
Dumps(recs) ==
    FileOf("text", "array", [i \in 1..Len(recs) |-> AsDict(recs[i])])

\* The keys of a JSON object; the value json.loads keeps for a key (the last).
Keys(members) == {members[i][1] : i \in 1..Len(members)}
ValueOf(members, key) ==
    LET at == {i \in 1..Len(members) : members[i][1] = key}
    IN members[CHOOSE i \in at : \A j \in at : j <= i][2]

\* MoveRecord(**record) succeeds: a dict, with no unexpected keyword and no
\* missing required argument (operation_type has a default).
IsRecordDict(element) ==
    /\ element.type = "object"
    /\ Keys(element.members) \subseteq {"src", "dst", "timestamp", "operation_type"}
    /\ {"src", "dst", "timestamp"} \subseteq Keys(element.members)

\* MoveRecord(**record)
FromDict(element) ==
    [src |-> ValueOf(element.members, "src"),
     dst |-> ValueOf(element.members, "dst"),
     timestamp |-> ValueOf(element.members, "timestamp"),
     operation_type |->
        IF "operation_type" \in Keys(element.members)
        THEN ValueOf(element.members, "operation_type")
        ELSE "move"]

\* UndoStack.__init__ and _load: the exception that escapes ("ok": none) and
\* the _records of the new stack.
Load(file) ==
    IF file.kind = "missing"
    THEN [outcome |-> "ok", records |-> <<>>]
    ELSE IF file.kind = "undecodable"   \* read_text(encoding="utf-8") raises
    THEN [outcome |-> "UnicodeDecodeError", records |-> <<>>]
    ELSE IF file.kind = "text" /\ file.type = "array"
              /\ \A i \in 1..Len(file.items) : IsRecordDict(file.items[i])
    THEN [outcome |-> "ok",
          records |-> [i \in 1..Len(file.items) |-> FromDict(file.items[i])]]
    ELSE [outcome |-> "ok", records |-> <<>>]   \* JSONDecodeError, TypeError

\* The state the file operations read and write.
FsState(fs, ds, recs, file) ==
    [files |-> fs, dirs |-> ds, records |-> recs, histFile |-> file]

\* UndoStack._save
Save(s) ==
    [s EXCEPT !.dirs = s.dirs \cup {"/a", HistoryDir},
              !.histFile = Dumps(s.records)]

\* push adding the record to what the history file holds.
StackPushAppendToFile(s, record) ==
    [s EXCEPT !.records = Append(@, record),
              !.dirs = s.dirs \cup {"/a", HistoryDir},
              !.histFile = Dumps(Append(Load(s.histFile).records, record))]

\* UndoStack.push
StackPush(s, record) == Save([s EXCEPT !.records = Append(@, record)])

\* pop that forgets to call _save.
StackPopNoSave(s) ==
    IF s.records = <<>> THEN s
    ELSE [s EXCEPT !.records = SubSeq(@, 1, Len(@) - 1)]

\* UndoStack.pop: the stack after it (the record returned is the old tail).
StackPop(s) ==
    IF s.records = <<>> THEN s
    ELSE Save([s EXCEPT !.records = SubSeq(@, 1, Len(@) - 1)])

\* UndoStack.clear
StackClear(s) == Save([s EXCEPT !.records = <<>>])

----------------------------------------------------------------------------
(* safe_move and undo_last.  os_ok says whether shutil.move succeeds at    *)
(* the operating-system level.                                             *)

Result(s, outcome) == [st |-> s, outcome |-> outcome]

\* safe_move creating the destination directory before its checks.
SafeMoveMkdirFirst(s, src_arg, dst_arg, timestamp, os_ok) ==
    LET src == Resolve(src_arg)
        dst == Resolve(dst_arg)
        made == [s EXCEPT !.dirs = MkdirParents(@, Parent(dst))]
        moved == [made EXCEPT !.files = ShutilMove(@, src, dst)]
    IN IF MkdirFails(s.files, Parent(dst)) THEN Result(s, "FileExistsError")
       ELSE IF ~Exists(s.files, s.dirs, src)
            THEN Result(made, "SourceNotFoundError")
       ELSE IF Exists(s.files, s.dirs, dst)
            THEN Result(made, "DestinationExistsError")
       ELSE IF ~os_ok THEN Result(made, "FileOperationError")
       ELSE Result(StackPush(moved, MoveRecordCreate(src, dst, timestamp)),
                   "ok")

\* safe_move pushing the record before it moves the file.
SafeMoveRecordFirst(s, src_arg, dst_arg, timestamp, os_ok) ==
    LET src == Resolve(src_arg)
        dst == Resolve(dst_arg)
        made == [s EXCEPT !.dirs = MkdirParents(@, Parent(dst))]
        pushed == StackPush(made, MoveRecordCreate(src, dst, timestamp))
    IN IF ~Exists(s.files, s.dirs, src) THEN Result(s, "SourceNotFoundError")
       ELSE IF Exists(s.files, s.dirs, dst)
            THEN Result(s, "DestinationExistsError")
       ELSE IF MkdirFails(s.files, Parent(dst)) THEN Result(s, "FileExistsError")
       ELSE IF ~os_ok THEN Result(pushed, "FileOperationError")
       ELSE Result([pushed EXCEPT !.files = ShutilMove(@, src, dst)], "ok")

SafeMove(s, src_arg, dst_arg, timestamp, os_ok) ==
    LET src == Resolve(src_arg)
        dst == Resolve(dst_arg)
        made == [s EXCEPT !.dirs = MkdirParents(@, Parent(dst))]
        moved == [made EXCEPT !.files = ShutilMove(@, src, dst)]
    IN IF ~Exists(s.files, s.dirs, src) THEN Result(s, "SourceNotFoundError")
       ELSE IF Exists(s.files, s.dirs, dst)
            THEN Result(s, "DestinationExistsError")
       ELSE IF MkdirFails(s.files, Parent(dst)) THEN Result(s, "FileExistsError")
       ELSE IF ~os_ok THEN Result(made, "FileOperationError")
       ELSE Result(StackPush(moved, MoveRecordCreate(src, dst, timestamp)),
                   "ok")

\* undo_last reading the record with peek() instead of pop().
UndoLastPeek(s, os_ok) ==
    IF s.records = <<>> THEN Result(s, "None")
    ELSE LET record == s.records[Len(s.records)]
             src == record.src
             dst == record.dst
             made == [s EXCEPT !.dirs = MkdirParents(@, Parent(src))]
         IN IF ~Exists(s.files, s.dirs, dst)
            THEN Result(s, "UndoError: moved file not found")
            ELSE IF Exists(s.files, s.dirs, src)
            THEN Result(s, "UndoError: original location occupied")
            ELSE IF MkdirFails(s.files, Parent(src))
            THEN Result(s, "FileExistsError")
            ELSE IF ~os_ok
            THEN Result(made, "UndoError: failed to undo")
            ELSE Result([made EXCEPT !.files = ShutilMove(@, dst, src)], "ok")

\* undo_last without the push-back of its OSError handler.
UndoLastNoPushBack(s, os_ok) ==
    IF s.records = <<>> THEN Result(s, "None")
    ELSE LET record == s.records[Len(s.records)]
             popped == StackPop(s)
             src == record.src
             dst == record.dst
             made == [popped EXCEPT !.dirs = MkdirParents(@, Parent(src))]
         IN IF ~Exists(popped.files, popped.dirs, dst)
            THEN Result(popped, "UndoError: moved file not found")
            ELSE IF Exists(popped.files, popped.dirs, src)
            THEN Result(popped, "UndoError: original location occupied")
            ELSE IF MkdirFails(popped.files, Parent(src))
            THEN Result(popped, "FileExistsError")
            ELSE IF ~os_ok
            THEN Result(made, "UndoError: failed to undo")
            ELSE Result([made EXCEPT !.files = ShutilMove(@, dst, src)], "ok")

UndoLast(s, os_ok) ==
    IF s.records = <<>> THEN Result(s, "None")
    ELSE LET record == s.records[Len(s.records)]
             popped == StackPop(s)
             src == record.src
             dst == record.dst
             made == [popped EXCEPT !.dirs = MkdirParents(@, Parent(src))]
         IN IF ~Exists(popped.files, popped.dirs, dst)
            THEN Result(popped, "UndoError: moved file not found")
            ELSE IF Exists(popped.files, popped.dirs, src)
            THEN Result(popped, "UndoError: original location occupied")
            ELSE IF MkdirFails(popped.files, Parent(src))
            THEN Result(popped, "FileExistsError")
            ELSE IF ~os_ok
            THEN Result(StackPush(made, record), "UndoError: failed to undo")
            ELSE Result([made EXCEPT !.files = ShutilMove(@, dst, src)], "ok")

\* The while loop of undo_all: undone is the list built so far, and the
\* shutil.move of the fail_at-th undo fails (none if fail_at is 0).  An
\* UndoError ends the loop and the list is lost with it.
RECURSIVE UndoAllLoop(_, _, _)
UndoAllLoop(s, undone, fail_at) ==
    IF s.records = <<>>
    THEN [st |-> s, outcome |-> "ok", undone |-> undone]
    ELSE LET r == UndoLast(s, fail_at # Len(undone) + 1)
         IN IF r.outcome = "ok"
            THEN UndoAllLoop(r.st, Append(undone, s.records[Len(s.records)]),
                             fail_at)
            ELSE [st |-> r.st, outcome |-> r.outcome, undone |-> undone]

\* undo_all with "if" in the place of "while".
UndoAllOnce(s, fail_at) ==
    IF s.records = <<>>
    THEN [st |-> s, outcome |-> "ok", undone |-> <<>>]
    ELSE LET r == UndoLast(s, fail_at # 1)
         IN [st |-> r.st, outcome |-> r.outcome,
             undone |-> IF r.outcome = "ok"
                        THEN <<s.records[Len(s.records)]>> ELSE <<>>]

UndoAll(s, fail_at) == UndoAllLoop(s, <<>>, fail_at)

----------------------------------------------------------------------------
(* Spec: one process with one UndoStack on a history file that did not     *)
(* exist; it calls safe_move and undo_last and may restart, while files    *)
(* are deleted and created behind its back.  The collection is flat.       *)

\* datetime.now().isoformat() during the life of the process: its moves fall
\* within one tick of the clock.
MoveTimes == {"t1"}

Call(op, outcome, src, dst, chained) ==
    [op |-> op, outcome |-> outcome, src |-> src, dst |-> dst,
     chained |-> chained]

Now == FsState(files, dirs, records, histFile)

Becomes(s) ==
    /\ files' = s.files
    /\ dirs' = s.dirs
    /\ records' = s.records
    /\ histFile' = s.histFile

InitialFiles == [p \in FilePaths |->
                    IF p = "/a/x" THEN "x" ELSE IF p = "/a/y" THEN "y" ELSE NoFile]

Init ==
    /\ hashes = <<>>
    /\ tree = EmptyTree
    /\ found = NoFound
    /\ groups = NoGroups
    /\ sizes = <<>>
    /\ scan = <<>>
    /\ result = NoResult
    /\ measured = NoMeasure
    /\ hashed = NoHashed
    /\ files = InitialFiles
    /\ dirs = {"/a"}
    /\ records = <<>>
    /\ histFile = MissingFile
    /\ live = TRUE
    /\ last = Call("construct", "ok", "", "", FALSE)
    /\ pc = Idle
    /\ records2 = <<>>
    /\ ui = NoPage

\* safe_move; it is given the path of a file, never of a directory.
DoSafeMove(src, dst, timestamp, os_ok) ==
    /\ live
    /\ Len(records) < MaxStack
    /\ Resolve(src) \notin dirs
    /\ LET r == SafeMove(Now, src, dst, timestamp, os_ok)
       IN /\ Becomes(r.st)
          /\ last' = Call("safe_move", r.outcome, src, dst,
                          /\ last.op = "safe_move" /\ last.outcome = "ok"
                          /\ Resolve(last.src) = Resolve(src))
    /\ UNCHANGED <<dedupVars, ui, pc, records2, live>>

DoUndoLast(os_ok) ==
    /\ live
    /\ LET r == UndoLast(Now, os_ok)
       IN /\ Becomes(r.st)
          /\ last' = Call("undo_last", r.outcome, "", "",
                          last.op = "safe_move" /\ last.outcome = "ok")
    /\ UNCHANGED <<dedupVars, ui, pc, records2, live>>

\* undo_all; last.undone is the list of records undone when it ended.
DoUndoAll(fail_at) ==
    /\ live
    /\ LET r == UndoAll(Now, fail_at)
       IN /\ Becomes(r.st)
          /\ last' = [op |-> "undo_all", outcome |-> r.outcome,
                      src |-> "", dst |-> "", chained |-> FALSE,
                      undone |-> r.undone]
    /\ UNCHANGED <<dedupVars, ui, pc, records2, live>>

\* The process ends and a new one constructs its UndoStack on the same file.
Restart ==
    /\ LET r == Load(histFile)
       IN /\ records' = r.records
          /\ live' = (r.outcome = "ok")
          /\ last' = Call("construct", r.outcome, "", "", FALSE)
    /\ UNCHANGED <<dedupVars, ui, pc, records2, files, dirs, histFile>>

\* Somebody else deletes a file of the collection.
EnvUnlink(p) ==
    /\ files[p] # NoFile
    /\ files' = [files EXCEPT ![p] = NoFile]
    /\ last' = Call("env", "ok", "", "", FALSE)
    /\ UNCHANGED <<dedupVars, ui, pc, records2, dirs, records, histFile, live>>

\* Somebody else creates a file in the collection.
EnvWrite(p) ==
    /\ ~Exists(files, dirs, p)
    /\ Parent(p) \in dirs
    /\ files' = [files EXCEPT ![p] = "ext"]
    /\ last' = Call("env", "ok", "", "", FALSE)
    /\ UNCHANGED <<dedupVars, ui, pc, records2, dirs, records, histFile, live>>

Next ==
    \/ \E src \in InputPaths, dst \in InputPaths, timestamp \in MoveTimes,
          os_ok \in BOOLEAN : DoSafeMove(src, dst, timestamp, os_ok)
    \/ \E os_ok \in BOOLEAN : DoUndoLast(os_ok)
    \/ \E fail_at \in 0..MaxStack : DoUndoAll(fail_at)
    \/ Restart
    \/ \E p \in FlatPaths : EnvUnlink(p)
    \/ \E p \in FlatPaths : EnvWrite(p)

Spec == Init /\ [][Next]_vars

----------------------------------------------------------------------------
(* Claims about safe_move and undo_last (Spec).                            *)

Rejections == {"SourceNotFoundError", "DestinationExistsError"}

PreconditionUndoErrors ==
    {"UndoError: moved file not found", "UndoError: original location occupied"}

\* The record the history file holds last, read as the file format says.
PersistedTail(file) == FromDict(file.items[Len(file.items)])

\* C2: when undo_last fails because the recorded destination is missing or
\* the recorded source is occupied, the popped record is pushed back: after
\* the UndoError the stack, in memory and in the history file, is what it was
\* before the call.
C2_FailedUndoKeepsRecord ==
    [][ (last'.op = "undo_last" /\ last'.outcome \in PreconditionUndoErrors)
            => (records' = records /\ histFile' = histFile) ]_vars

\* C3: when safe_move returns normally, src is gone, dst holds the file, the
\* stack is the old stack plus one record, and that record, in memory and in
\* the history file, has the resolved src and dst; the move was possible
\* before the record was written.
C3_SafeMoveRecordsAfterMove ==
    [][ (last'.op = "safe_move" /\ last'.outcome = "ok") =>
          LET src == Resolve(last'.src)
              dst == Resolve(last'.dst)
              n == Len(records')
          IN /\ Exists(files, dirs, src) /\ ~Exists(files, dirs, dst)
             /\ ~Exists(files', dirs', src)
             /\ Exists(files', dirs', dst)
             /\ files'[dst] = files[src]
             /\ n = Len(records) + 1
             /\ SubSeq(records', 1, n - 1) = records
             /\ records'[n].src = src /\ records'[n].dst = dst
             /\ histFile'.kind = "text" /\ histFile'.type = "array"
             /\ Len(histFile'.items) = n
             /\ PersistedTail(histFile').src = src
             /\ PersistedTail(histFile').dst = dst ]_vars

\* A second move has been recorded, requested under an unresolved name.
C3_Witness ==
    /\ last.op = "safe_move" /\ last.outcome = "ok"
    /\ last.src # Resolve(last.src)
    /\ Len(records) = 2

\* C4: safe_move rejects before any mutation: SourceNotFoundError if the
\* source does not exist, else DestinationExistsError if the destination
\* exists, and then files, directories, stack and history file are unchanged;
\* a second safe_move of a source just moved raises SourceNotFoundError and
\* leaves the stack length unchanged.
C4_RejectionMutatesNothing ==
    [][ last'.op = "safe_move" =>
          LET src == Resolve(last'.src)
              dst == Resolve(last'.dst)
          IN /\ ~Exists(files, dirs, src) => last'.outcome = "SourceNotFoundError"
             /\ (Exists(files, dirs, src) /\ Exists(files, dirs, dst))
                    => last'.outcome = "DestinationExistsError"
             /\ last'.outcome \in Rejections
                    => UNCHANGED <<files, dirs, records, histFile>>
             /\ last'.chained
                    => /\ last'.outcome = "SourceNotFoundError"
                       /\ Len(records') = Len(records) ]_vars

\* A source that was just moved was asked to move again and was rejected.
C4_Witness ==
    /\ last.op = "safe_move" /\ last.chained
    /\ last.outcome = "SourceNotFoundError"
    /\ Len(records) >= 1

\* C5: from every state, for every existing src and free dst, a successful
\* safe_move followed at once by undo_last (shutil.move succeeding) puts the
\* files back where they were and returns the stack, in memory and as
\* persisted, to its records before the move.
C5_MoveThenUndoRestores ==
    live =>
      \A src \in InputPaths, dst \in InputPaths, timestamp \in Timestamps :
        LET moved == SafeMove(Now, src, dst, timestamp, TRUE)
            undone == UndoLast(moved.st, TRUE)
        IN moved.outcome = "ok" =>
             /\ undone.outcome = "ok"
             /\ undone.st.files = files
             /\ Exists(undone.st.files, undone.st.dirs, Resolve(src))
             /\ ~Exists(undone.st.files, undone.st.dirs, Resolve(dst))
             /\ undone.st.records = records
             /\ Load(undone.st.histFile) = Load(histFile)

\* A move onto a non-empty stack was undone by the very next call.
C5_Witness ==
    /\ last.op = "undo_last" /\ last.outcome = "ok" /\ last.chained
    /\ Len(records) >= 1

UndoErrors == PreconditionUndoErrors \cup {"UndoError: failed to undo"}

\* The files once the moves recs have been taken back, newest first.
RECURSIVE MovedBack(_, _)
MovedBack(fs, recs) ==
    IF recs = <<>> THEN fs
    ELSE MovedBack(ShutilMove(fs, recs[Len(recs)].dst, recs[Len(recs)].src),
                   SubSeq(recs, 1, Len(recs) - 1))

\* C11: when an undo fails during undo_all, the stack left behind (in memory
\* and in the history file) is the original stack minus the records undone
\* before the failure, the failing record still at its tail, and the files of
\* the records already undone are back at their sources.
C11_FailedUndoAllKeepsRest ==
    [][ (last'.op = "undo_all" /\ last'.outcome \in UndoErrors) =>
          LET n == Len(records) - Len(last'.undone)
          IN /\ records' = SubSeq(records, 1, n)
             /\ Load(histFile').records = SubSeq(records, 1, n)
             /\ files' = MovedBack(files, SubSeq(records, n + 1, Len(records)))
      ]_vars

\* C12: when no undo fails, undo_all ends with an empty stack, in memory and
\* in the history file, every recorded file moved from its destination back
\* to its source, and returns the records newest first.
C12_UndoAllRestoresAll ==
    live =>
      \A fail_at \in 0..MaxStack :
        LET r == UndoAll(Now, fail_at)
        IN r.outcome = "ok" =>
             /\ r.st.records = <<>>
             /\ Load(r.st.histFile) = [outcome |-> "ok", records |-> <<>>]
             /\ r.undone = Reverse(records)
             /\ r.st.files = MovedBack(files, records)
             /\ \A i \in 1..Len(records) :
                   ~Exists(r.st.files, r.st.dirs, records[i].dst)
                       \/ \E j \in 1..Len(records) :
                             j # i /\ records[j].src = records[i].dst

\* undo_all has undone two moves.
C12_Witness ==
    /\ last.op = "undo_all" /\ last.outcome = "ok"
    /\ Len(last.undone) = 2
    /\ records = <<>>

\* C19: when the preconditions of safe_move hold and shutil.move fails at
\* the operating-system level, safe_move raises FileOperationError and the
\* undo stack, in memory and in the history file, is unchanged.
C19_FailedMoveLeavesStack ==
    live =>
      \A src \in InputPaths, dst \in InputPaths, timestamp \in Timestamps :
        LET r == SafeMove(Now, src, dst, timestamp, FALSE)
        IN (Exists(files, dirs, Resolve(src)) /\ ~Exists(files, dirs, Resolve(dst))) =>
             /\ r.outcome = "FileOperationError"
             /\ r.st.records = records
             /\ r.st.histFile = histFile

\* A move failed at the operating-system level with a record on the stack.
C19_Witness ==
    /\ last.op = "safe_move" /\ last.outcome = "FileOperationError"
    /\ Len(records) >= 1

\* C20: when both preconditions of undo_last hold and shutil.move fails at
\* the operating-system level, undo_last raises UndoError and the record is
\* again the tail of the stack, in memory and in the history file.
C20_FailedUndoKeepsRecord ==
    (live /\ records # <<>>) =>
        LET record == records[Len(records)]
            r == UndoLast(Now, FALSE)
        IN (Exists(files, dirs, record.dst) /\ ~Exists(files, dirs, record.src)) =>
             /\ r.outcome = "UndoError: failed to undo"
             /\ r.st.records = records
             /\ Load(r.st.histFile) = [outcome |-> "ok", records |-> records]
             /\ UndoLast(r.st, TRUE).outcome = "ok"

\* An undo failed at the operating-system level below a second record.
C20_Witness ==
    /\ last.op = "undo_last" /\ last.outcome = "UndoError: failed to undo"
    /\ Len(records) = 2

----------------------------------------------------------------------------
(* SpecAlone: one process with one UndoStack that starts empty calls       *)
(* safe_move, undo_last and undo_all; nobody else touches the files and    *)
(* shutil.move never fails.  Destinations may be below a name that was a   *)
(* file.                                                                   *)

NextAlone ==
    \/ \E src \in NestedInputs, dst \in NestedInputs, timestamp \in MoveTimes :
          DoSafeMove(src, dst, timestamp, TRUE)
    \/ DoUndoLast(TRUE)
    \/ DoUndoAll(0)

SpecAlone == Init /\ [][NextAlone]_vars

\* C28: from an empty stack, after any calls of safe_move and undo_last
\* with no external change of the files and no OS-level failure, whenever
\* the stack is non-empty the destination of its tail record exists and the
\* source of its tail record is free; hence undo_last and undo_all never
\* raise.
C28_TailIsUndoable ==
    /\ records # <<>> =>
          LET record == records[Len(records)]
          IN /\ Exists(files, dirs, record.dst)
             /\ ~Exists(files, dirs, record.src)
    /\ last.op \in {"undo_last", "undo_all"} => last.outcome \in {"ok", "None"}

----------------------------------------------------------------------------
(* SpecCrash: safe_move and undo_last one step at a time.  The process     *)
(* can stop between any two steps; a new one then constructs its UndoStack *)
(* from the history file.  shutil.move does not fail and nobody else       *)
(* touches the flat collection.                                            *)

At(op, at, src, dst) == [at |-> at, op |-> op, src |-> src, dst |-> dst]

\* write_text has opened the history file for writing: it is empty.
Truncated == FileOf("text", "invalid", <<>>)

\* safe_move up to the two checks of its arguments.
CallSafeMove(src_arg, dst_arg) ==
    /\ live
    /\ pc = Idle
    /\ Len(records) < MaxStack
    /\ Resolve(src_arg) \notin dirs
    /\ LET src == Resolve(src_arg)
           dst == Resolve(dst_arg)
           outcome == IF ~Exists(files, dirs, src) THEN "SourceNotFoundError"
                      ELSE IF Exists(files, dirs, dst)
                           THEN "DestinationExistsError"
                      ELSE "checked"
       IN /\ pc' = IF outcome = "checked"
                   THEN At("safe_move", "checked", src, dst) ELSE Idle
          /\ last' = Call("safe_move", outcome, src_arg, dst_arg, FALSE)
    /\ UNCHANGED <<dedupVars, ui, files, dirs, records, histFile, live, records2>>

\* undo_last up to the return of pop(); the record popped is in pc.
CallUndoLast ==
    /\ live
    /\ pc = Idle
    /\ IF records = <<>>
       THEN /\ last' = Call("undo_last", "None", "", "", FALSE)
            /\ UNCHANGED <<pc, records>>
       ELSE LET record == records[Len(records)]
            IN /\ records' = SubSeq(records, 1, Len(records) - 1)
               /\ pc' = At("undo_last", "popped", record.src, record.dst)
               /\ last' = Call("undo_last", "popped", "", "", FALSE)
    /\ UNCHANGED <<dedupVars, ui, files, dirs, histFile, live, records2>>

\* _save, first half: mkdir of the history directory, the file opened.
SaveOpen ==
    /\ pc.at \in {"appended", "popped"}
    /\ dirs' = dirs \cup {"/a", HistoryDir}
    /\ histFile' = Truncated
    /\ pc' = [pc EXCEPT !.at = "opened"]
    /\ UNCHANGED <<dedupVars, ui, files, records, live, last, records2>>

\* _save, second half: the text is written; push returns to safe_move,
\* which returns, and pop returns to undo_last.
SaveWrite ==
    /\ pc.at = "opened"
    /\ histFile' = Dumps(records)
    /\ IF pc.op = "safe_move"
       THEN /\ pc' = Idle
            /\ last' = [last EXCEPT !.outcome = "ok"]
       ELSE /\ pc' = [pc EXCEPT !.at = "saved"]
            /\ UNCHANGED last
    /\ UNCHANGED <<dedupVars, ui, files, dirs, records, live, records2>>

\* The two checks of undo_last.
UndoCheck ==
    /\ pc.at = "saved"
    /\ LET outcome == IF ~Exists(files, dirs, pc.dst)
                      THEN "UndoError: moved file not found"
                      ELSE IF Exists(files, dirs, pc.src)
                           THEN "UndoError: original location occupied"
                      ELSE "checked"
       IN /\ pc' = IF outcome = "checked" THEN [pc EXCEPT !.at = "checked"]
                   ELSE Idle
          /\ last' = [last EXCEPT !.outcome = outcome]
    /\ UNCHANGED <<dedupVars, ui, files, dirs, records, histFile, live, records2>>

\* dst.parent.mkdir of safe_move, src.parent.mkdir of undo_last.
Mkdir ==
    /\ pc.at = "checked"
    /\ LET d == Parent(IF pc.op = "safe_move" THEN pc.dst ELSE pc.src)
       IN IF MkdirFails(files, d)
          THEN /\ pc' = Idle
               /\ last' = [last EXCEPT !.outcome = "FileExistsError"]
               /\ UNCHANGED dirs
          ELSE /\ dirs' = MkdirParents(dirs, d)
               /\ pc' = [pc EXCEPT !.at = "mkdir"]
               /\ UNCHANGED last
    /\ UNCHANGED <<dedupVars, ui, files, records, histFile, live, records2>>

\* shutil.move of safe_move.
MoveFile ==
    /\ pc.at = "mkdir" /\ pc.op = "safe_move"
    /\ files' = ShutilMove(files, pc.src, pc.dst)
    /\ pc' = [pc EXCEPT !.at = "moved"]
    /\ UNCHANGED <<dedupVars, ui, dirs, records, histFile, live, last, records2>>

\* MoveRecord.create and the append of push.
AppendRecord(timestamp) ==
    /\ pc.at = "moved"
    /\ records' = Append(records, MoveRecordCreate(pc.src, pc.dst, timestamp))
    /\ pc' = [pc EXCEPT !.at = "appended"]
    /\ UNCHANGED <<dedupVars, ui, files, dirs, histFile, live, last, records2>>

\* shutil.move of undo_last, which then returns the record.
MoveBack ==
    /\ pc.at = "mkdir" /\ pc.op = "undo_last"
    /\ files' = ShutilMove(files, pc.dst, pc.src)
    /\ pc' = Idle
    /\ last' = [last EXCEPT !.outcome = "ok"]
    /\ UNCHANGED <<dedupVars, ui, dirs, records, histFile, live, records2>>

\* The process stops where it is and a new one constructs its UndoStack.
Crash ==
    /\ LET r == Load(histFile)
       IN /\ records' = r.records
          /\ live' = (r.outcome = "ok")
          /\ last' = [op |-> "construct", outcome |-> r.outcome,
                      src |-> "", dst |-> "", chained |-> FALSE,
                      stopped |-> pc]
    /\ pc' = Idle
    /\ UNCHANGED <<dedupVars, ui, files, dirs, histFile, records2>>

NextCrash ==
    \/ \E src \in InputPaths, dst \in InputPaths : CallSafeMove(src, dst)
    \/ CallUndoLast
    \/ SaveOpen
    \/ SaveWrite
    \/ UndoCheck
    \/ Mkdir
    \/ MoveFile
    \/ \E timestamp \in MoveTimes : AppendRecord(timestamp)
    \/ MoveBack
    \/ Crash

SpecCrash == Init /\ [][NextCrash]_vars

\* Where a file of the collection was before any move.
Home(content) == IF content = "x" THEN "/a/x" ELSE "/a/y"

\* C23: every relocation stays reversible across a crash: when the process
\* stopped between two steps of safe_move or undo_last and a new UndoStack is
\* loaded from the history file, every file that sits at a safe_move
\* destination and not at its original place has a record in that stack.
C23_CrashKeepsMovesReversible ==
    (last.op = "construct" /\ last.outcome = "ok") =>
        \A p \in FilePaths :
            (files[p] # NoFile /\ p # Home(files[p])) =>
                \E i \in 1..Len(records) : records[i].dst = p

----------------------------------------------------------------------------
(* SpecTwo: two UndoStack objects constructed on the same history file;    *)
(* safe_move is called with the one or the other, one call at a time, and  *)
(* either can be constructed again.  shutil.move does not fail.            *)

StackOf(k) == IF k = 1 THEN records ELSE records2

\* safe_move(src, dst, undo_stack) with the k-th stack.
SafeMoveWith(k, src, dst, timestamp) ==
    /\ live
    /\ Len(StackOf(k)) < MaxStack
    /\ Resolve(src) \notin dirs
    /\ LET r == SafeMove(FsState(files, dirs, StackOf(k), histFile),
                         src, dst, timestamp, TRUE)
       IN /\ files' = r.st.files
          /\ dirs' = r.st.dirs
          /\ histFile' = r.st.histFile
          /\ records' = IF k = 1 THEN r.st.records ELSE records
          /\ records2' = IF k = 2 THEN r.st.records ELSE records2
          /\ last' = [op |-> "safe_move", outcome |-> r.outcome,
                      src |-> src, dst |-> dst, chained |-> FALSE,
                      stack |-> k]
    /\ UNCHANGED <<dedupVars, ui, live, pc>>

\* UndoStack(history_file) constructed again in the place of the k-th.
ConstructAgain(k) ==
    /\ live
    /\ LET r == Load(histFile)
       IN /\ records' = IF k = 1 THEN r.records ELSE records
          /\ records2' = IF k = 2 THEN r.records ELSE records2
          /\ last' = [op |-> "construct", outcome |-> r.outcome,
                      src |-> "", dst |-> "", chained |-> FALSE, stack |-> k]
    /\ UNCHANGED <<dedupVars, ui, files, dirs, histFile, live, pc>>

NextTwo ==
    \/ \E k \in {1, 2}, src \in InputPaths, dst \in InputPaths,
          timestamp \in MoveTimes : SafeMoveWith(k, src, dst, timestamp)
    \/ \E k \in {1, 2} : ConstructAgain(k)

SpecTwo == Init /\ [][NextTwo]_vars

\* C24: with two UndoStack objects on one history file the log can lose
\* records: after a successful safe_move the persisted history is the
\* snapshot of the stack that was passed, whatever the file held, so a
\* record the other stack wrote since this one was loaded is gone.
C24_HistoryIsWriterSnapshot ==
    (last.op = "safe_move" /\ last.outcome = "ok") =>
        Load(histFile).records = StackOf(last.stack)

\* Two successful safe_move calls, one with each stack, both files at their
\* destinations, and the persisted history lacks the record of the first.
C24_Witness ==
    /\ last.op = "safe_move" /\ last.outcome = "ok" /\ last.stack = 2
    /\ Len(records) = 1
    /\ Len(records2) = 1
    /\ files[records[1].dst] = "x" /\ records[1].dst # Home("x")
    /\ files[records2[1].dst] = "y" /\ records2[1].dst # Home("y")
    /\ records[1] \notin Range(Load(histFile).records)
    /\ records2[1] \in Range(Load(histFile).records)

----------------------------------------------------------------------------
(* SpecPage: the duplicates page shows one group of the two images /a/x    *)
(* and /a/y found in the selected folder /a; the user ticks and unticks    *)
(* the keep boxes and clicks "move duplicates".  Files of an earlier       *)
(* session may be in the output folders.                                   *)

ShownImages == {"/a/x", "/a/y"}

\* Path.name; the names have no suffix, so Path.stem is the same.
PathName(p) == IF p = "/a/x" THEN "x" ELSE "y"

\* _keep_selections.get(path_str, True)
Get(keep, p) == IF p \in DOMAIN keep THEN keep[p] ELSE TRUE

\* "Handle name collisions": the loop looking for a free numbered name.
RECURSIVE NextFree(_, _, _, _, _)
NextFree(fs, ds, folder, stem, counter) ==
    LET dst == Join(folder, stem \o "_" \o ToString(counter))
    IN IF Exists(fs, ds, dst) THEN NextFree(fs, ds, folder, stem, counter + 1)
       ELSE dst

\* dst = folder / img.path.name, or the first free numbered name.
FreeName(fs, ds, folder, img) ==
    IF Exists(fs, ds, Join(folder, PathName(img)))
    THEN NextFree(fs, ds, folder, PathName(img), 1)
    ELSE Join(folder, PathName(img))

\* The parameters of safe_move, and a call of it with keyword arguments as
\* Python binds it: a keyword that is no parameter raises TypeError before
\* the body runs.
SafeMoveParameters == {"src", "dst", "undo_stack"}
SafeMoveCalled(s, src, dst, timestamp, os_ok, keywords) ==
    IF keywords \subseteq SafeMoveParameters
    THEN SafeMove(s, src, dst, timestamp, os_ok)
    ELSE Result(s, "TypeError")

\* The body of the two loops over group.all_images, for one image.
MoveUnkept(acc, img, folder, keep, timestamp) ==
    IF Get(keep, img) THEN acc
    ELSE LET dst == FreeName(acc.st.files, acc.st.dirs, folder, img)
             r == SafeMoveCalled(acc.st, img, dst, timestamp, TRUE, {"root"})
         IN IF r.outcome = "ok"
            THEN [acc EXCEPT !.st = r.st, !.moved_count = @ + 1]
            ELSE [acc EXCEPT !.st = r.st,
                             !.errors = Append(@, PathName(img))]

\* for group in groups: for img in group.all_images
RECURSIVE MoveImages(_, _, _, _, _)
MoveImages(acc, imgs, folder, keep, timestamp) ==
    IF imgs = <<>> THEN acc
    ELSE MoveImages(MoveUnkept(acc, Head(imgs), folder, keep, timestamp),
                    Tail(imgs), folder, keep, timestamp)

\* The page after deduplicate: the groups as lists of paths, original first,
\* and the keep boxes as _show_image_card sets them.
Page(identical_groups, similar_groups) ==
    [shown |-> TRUE,
     identical_groups |-> identical_groups,
     similar_groups |-> similar_groups,
     keep |-> [p \in ShownImages |->
                  \E g \in Range(identical_groups \o similar_groups) : g[1] = p],
     clicked |-> FALSE, moved_count |-> 0, errors |-> <<>>,
     before |-> [files |-> <<>>, keep |-> <<>>, stack |-> 0]]

Pages ==
    {Page(<<g>>, <<>>) : g \in {<<"/a/x", "/a/y">>, <<"/a/y", "/a/x">>}}
        \cup {Page(<<>>, <<g>>) : g \in {<<"/a/x", "/a/y">>, <<"/a/y", "/a/x">>}}

\* Names taken in the output folders by an earlier session.
TakenNames == {Join(folder, name) : folder \in TierFolders, name \in {"x", "y"}}

InitPage ==
    /\ hashes = <<>>
    /\ tree = EmptyTree
    /\ found = NoFound
    /\ groups = NoGroups
    /\ sizes = <<>>
    /\ scan = <<>>
    /\ result = NoResult
    /\ measured = NoMeasure
    /\ hashed = NoHashed
    /\ \E taken \in SUBSET TakenNames :
          /\ files = [p \in FilePaths |->
                         IF p \in taken THEN "old" ELSE InitialFiles[p]]
          /\ dirs = {"/a"} \cup UNION {MkdirParents({}, Parent(p)) : p \in taken}
    /\ records = <<>>
    /\ histFile = MissingFile
    /\ live = FALSE
    /\ last = NoLast
    /\ pc = Idle
    /\ records2 = <<>>
    /\ ui \in Pages

\* on_change of the keep checkbox of an image.
ToggleKeep(p, value) ==
    /\ ui.shown
    /\ ui' = [ui EXCEPT !.keep[p] = value]
    /\ UNCHANGED <<dedupVars, files, dirs, records, histFile, live, last, pc,
                   records2>>

\* _on_move_duplicates; ui.before is what the click found.
OnMoveDuplicates(timestamp) ==
    /\ ui.shown
    /\ LET loaded == Load(histFile)
           stack == IF live THEN records ELSE loaded.records
           made == MkdirParents(MkdirParents(dirs, IdenticalFolder),
                                SimilarFolder)
           start == [st |-> FsState(files, made, stack, histFile),
                     moved_count |-> 0, errors |-> <<>>]
           identical == MoveImages(start, Flatten(ui.identical_groups),
                                   IdenticalFolder, ui.keep, timestamp)
           similar == MoveImages(identical, Flatten(ui.similar_groups),
                                 SimilarFolder, ui.keep, timestamp)
           before == [files |-> files, keep |-> ui.keep, stack |-> Len(stack)]
       IN IF ~live /\ loaded.outcome # "ok"
          THEN /\ ui' = [ui EXCEPT !.clicked = TRUE, !.moved_count = 0,
                                   !.errors = <<>>, !.before = before]
               /\ last' = Call("move_duplicates", loaded.outcome, "", "", FALSE)
               /\ UNCHANGED <<files, dirs, records, histFile, live>>
          ELSE /\ Becomes(similar.st)
               /\ live' = TRUE
               /\ ui' = [ui EXCEPT !.clicked = TRUE,
                                   !.moved_count = similar.moved_count,
                                   !.errors = similar.errors,
                                   !.before = before]
               /\ last' = Call("move_duplicates", "ok", "", "", FALSE)
    /\ UNCHANGED <<dedupVars, pc, records2>>

NextPage ==
    \/ \E p \in ShownImages, value \in BOOLEAN : ToggleKeep(p, value)
    \/ \E timestamp \in MoveTimes : OnMoveDuplicates(timestamp)

SpecPage == InitPage /\ [][NextPage]_vars

\* C30: "move duplicates" relocates every image of a duplicate group whose
\* keep box is not ticked: each such file that exists is moved through
\* safe_move into the folder of its tier, identicas or similares, at a name
\* that was free, and the undo stack grows by one record per moved file.
C30_UnkeptImagesAreMoved ==
    (ui.shown /\ ui.clicked) =>
        LET before == ui.before
            TierOf(p) ==
                IF \E g \in Range(ui.identical_groups) : p \in Range(g)
                THEN IdenticalFolder ELSE SimilarFolder
            unkept == {p \in ShownImages :
                          ~Get(before.keep, p) /\ before.files[p] # NoFile}
        IN /\ \A p \in unkept :
                /\ files[p] = NoFile
                /\ \E q \in TierPaths(TierOf(p)) :
                      /\ before.files[q] = NoFile
                      /\ files[q] = before.files[p]
           /\ Len(records) = before.stack + Cardinality(unkept)

----------------------------------------------------------------------------
(* SpecStack: a history file of any content is on disk; a process          *)
(* constructs an UndoStack on it, pushes, pops and clears, and may be      *)
(* replaced by a new process that constructs its own.                      *)

\* Elements a JSON array found on disk may hold.
FileElements ==
    LET src == <<"src", "/a/x">>
        dst == <<"dst", "/a/dup/x">>
        timestamp == <<"timestamp", "t1">>
        operation_type == <<"operation_type", "move">>
    IN { [type |-> "object", members |-> <<src, dst, timestamp, operation_type>>],
         [type |-> "object", members |-> <<src, dst, timestamp>>],
         [type |-> "object", members |-> <<src, dst>>],
         [type |-> "object",
          members |-> <<src, dst, timestamp, operation_type, <<"note", "n">> >>],
         [type |-> "number", members |-> <<>>] }

ItemLists == UNION {[1..n -> FileElements] : n \in 0..MaxFileItems}

\* Bytes that are not UTF-8, text that is not JSON, JSON that is not an array.
BrokenHistoryFiles ==
    {FileOf("undecodable", "", <<>>), FileOf("text", "invalid", <<>>)}
        \cup {FileOf("text", type, <<>>) : type \in {"null", "number", "string", "object"}}

InitialHistoryFiles ==
    {MissingFile} \cup {FileOf("text", "array", items) : items \in ItemLists}

InitStack ==
    /\ hashes = <<>>
    /\ tree = EmptyTree
    /\ found = NoFound
    /\ groups = NoGroups
    /\ sizes = <<>>
    /\ scan = <<>>
    /\ result = NoResult
    /\ measured = NoMeasure
    /\ hashed = NoHashed
    /\ files = InitialFiles
    /\ dirs = {"/a"}
    /\ records = <<>>
    /\ \/ histFile \in BrokenHistoryFiles
       \/ histFile \in InitialHistoryFiles
    /\ live = FALSE
    /\ last = NoLast
    /\ pc = Idle
    /\ records2 = <<>>
    /\ ui = NoPage

MutatingCalls == {"push", "pop", "clear"}

\* UndoStack(history_file)
Construct ==
    /\ LET r == Load(histFile)
       IN /\ records' = r.records
          /\ live' = (r.outcome = "ok")
          /\ last' = Call("construct", r.outcome, "", "",
                          live /\ last.op \in MutatingCalls)
    /\ UNCHANGED <<dedupVars, ui, pc, records2, files, dirs, histFile>>

Push(src, dst, timestamp) ==
    /\ live
    /\ Len(records) < MaxStack
    /\ Becomes(StackPush(Now, MoveRecordCreate(src, dst, timestamp)))
    /\ last' = Call("push", "ok", src, dst, FALSE)
    /\ UNCHANGED <<dedupVars, ui, pc, records2, live>>

Pop ==
    /\ live
    /\ Becomes(StackPop(Now))
    /\ last' = Call("pop", IF records = <<>> THEN "None" ELSE "ok", "", "", FALSE)
    /\ UNCHANGED <<dedupVars, ui, pc, records2, live>>

Clear ==
    /\ live
    /\ Becomes(StackClear(Now))
    /\ last' = Call("clear", "ok", "", "", FALSE)
    /\ UNCHANGED <<dedupVars, ui, pc, records2, live>>

NextStack ==
    \/ Construct
    \/ \E src \in InputPaths, dst \in InputPaths, timestamp \in Timestamps :
          Push(src, dst, timestamp)
    \/ Pop
    \/ Clear

SpecStack == InitStack /\ [][NextStack]_vars

\* The file is the text of an array of objects of four fields, the records
\* recs in their order.
FileHolds(file, recs) ==
    /\ file.kind = "text" /\ file.type = "array"
    /\ Len(file.items) = Len(recs)
    /\ \A i \in 1..Len(recs) :
          LET members == file.items[i].members
          IN /\ file.items[i].type = "object"
             /\ Len(members) = 4
             /\ Keys(members) = {"src", "dst", "timestamp", "operation_type"}
             /\ ValueOf(members, "src") = recs[i].src
             /\ ValueOf(members, "dst") = recs[i].dst
             /\ ValueOf(members, "timestamp") = recs[i].timestamp
             /\ ValueOf(members, "operation_type") = recs[i].operation_type

\* C8: after every mutating UndoStack call (push, pop of a non-empty stack,
\* clear) the history file holds exactly the in-memory records, in the same
\* order and number.
C8_HistoryFileMirrorsStack ==
    (last.op \in MutatingCalls /\ last.outcome = "ok")
        => FileHolds(histFile, records)

\* A pop has left a record on the stack.
C8_Witness ==
    /\ last.op = "pop" /\ last.outcome = "ok"
    /\ Len(records) >= 1

\* The records successive pop() calls return, first to last.
RECURSIVE PopAll(_)
PopAll(s) ==
    IF s.records = <<>> THEN <<>>
    ELSE <<s.records[Len(s.records)]>> \o PopAll(StackPop(s))

\* C9: after push/pop/clear calls, a fresh UndoStack constructed on the same
\* history file holds the same records in the same order, and popping it
\* returns them newest first.
C9_RestartKeepsRecords ==
    [][ (last'.op = "construct" /\ last'.chained) =>
          /\ last'.outcome = "ok"
          /\ records' = records
          /\ PopAll(FsState(files', dirs', records', histFile'))
                = Reverse(records) ]_vars

\* A stack of two different records was reloaded after a mutating call.
C9_Witness ==
    /\ last.op = "construct" /\ last.chained
    /\ Len(records) = 2
    /\ records[1] # records[2]

\* What C10 calls well-formed: the text of an array of four-field records.
WellFormed(file) ==
    /\ file.kind = "text" /\ file.type = "array"
    /\ \A i \in 1..Len(file.items) :
          /\ file.items[i].type = "object"
          /\ Len(file.items[i].members) = 4
          /\ Keys(file.items[i].members)
                = {"src", "dst", "timestamp", "operation_type"}

\* C10: constructing an UndoStack on a history file that is missing or
\* corrupt (anything but a well-formed array of four-field records, bytes
\* that do not decode included) never raises and yields an empty stack.
C10_CorruptHistoryLoadsEmpty ==
    [][ (last'.op = "construct" /\ ~WellFormed(histFile)) =>
          /\ last'.outcome = "ok"
          /\ records' = <<>> ]_vars

=============================================================================
